---- MODULE Spec2Model ----
(***************************************************************************)
(* process_downloads.py: the triplet matcher (find_triplets), the per-unit *)
(* pipeline (process_triplet and the stages it calls) and the batch runner *)
(* (main), over a directory of files.                                      *)
(*                                                                         *)
(* A file name is a sequence of tokens whose concatenation is the name:    *)
(* <<"a", "_tags", ".json">> is a_tags.json, <<".mp3">> is the file .mp3.  *)
(* An extension token starts with a dot; no other token holds a dot.       *)
(***************************************************************************)
EXTENDS Integers, Sequences, FiniteSets, TLC

VARIABLES
    dirKind,        \* what the target path is: "missing", "file" or "dir"
    fs,             \* the directory: existing file name -> its ID3 frames
    pc,             \* position of main: "start", "scan", "loop", "exit"
    triplets,       \* main's list of units, as find_triplets returned it
    idx,            \* index in triplets of the unit being processed
    stage,          \* position of process_triplet for that unit
    tags_list,      \* process_triplet's local: what json.load returned
    mp3_file,       \* process_triplet's local: the path that is tagged
    ret,            \* what process_triplet returns for that unit
    success_count,  \* main's counter
    exit_code,      \* exit status of the process, NoExit while it runs
    tally,          \* the final tally line <<success_count, total>>, or <<>>
    dir0,           \* (history) the names in the directory when it was scanned
    fs0,            \* (history) fs when the unit started
    log,            \* (history) what each stage of the unit did
    results,        \* (history) the values process_triplet returned, in order
    stdout_encoding \* the encoding of the process's standard output

vars == <<dirKind, fs, pc, triplets, idx, stage, tags_list, mp3_file, ret,
          success_count, exit_code, tally, dir0, fs0, log, results,
          stdout_encoding>>

----------------------------------------------------------------------------
(* Bounds of the model. *)

\* the directory holds at most this many files
MaxFiles == 4

----------------------------------------------------------------------------
(* Paths: pathlib's name, stem, suffix, with_suffix and str.replace. *)

None == <<>>

NoExit == -1

Last(s) == s[Len(s)]

Front(s) == SubSeq(s, 1, Len(s) - 1)

IsExt(tok) == tok \in {".m4a", ".mp4", ".mp3", ".flac", ".jpeg", ".jpg", ".png",
                       ".webp", ".json", ".PNG", ".gif"}

\* Path.suffix: the part of the name from its last dot on, unless that dot
\* starts the name (a name such as .mp3 has no suffix)
Suffix(name) == IF Len(name) >= 2 /\ IsExt(Last(name)) THEN Last(name) ELSE ""

\* Path.stem: the name without its suffix
Stem(name) == IF Suffix(name) = "" THEN name ELSE Front(name)

\* Path.with_suffix: the stem followed by the new suffix
WithSuffix(name, ext) == Stem(name) \o <<ext>>

\* str.lower on a suffix
Lower(s) ==
    CASE s = ".MP3" -> ".mp3"
      [] s = ".PNG" -> ".png"
      [] s = ".WEBP" -> ".webp"
      [] OTHER -> s

\* str.replace(old, ""): every occurrence of the token is removed
RECURSIVE Replace(_, _)
Replace(s, old) ==
    IF s = <<>> THEN <<>>
    ELSE IF Head(s) = old THEN Replace(Tail(s), old)
    ELSE <<Head(s)>> \o Replace(Tail(s), old)

----------------------------------------------------------------------------
(* find_triplets *)

AudioExts == <<".m4a", ".mp4", ".mp3", ".flac">>

CoverExts == <<".jpeg", ".jpg", ".png", ".webp">>

\* directory.glob("*_tags.json"): the names that end in _tags.json
GlobTagsJson(files) ==
    {n \in files : Len(n) >= 2 /\ n[Len(n)] = ".json" /\ n[Len(n) - 1] = "_tags"}

\* base_name = json_file.stem.replace("_tags", "")
BaseName(json_file) == Replace(Stem(json_file), "_tags")

\* the loop without its break: the last candidate that exists
RECURSIVE LastExisting(_, _, _)
LastExisting(files, prefix, exts) ==
    IF exts = <<>> THEN None
    ELSE IF (prefix \o <<Last(exts)>>) \in files THEN prefix \o <<Last(exts)>>
    ELSE LastExisting(files, prefix, Front(exts))

\* the for/break loop over an extension list: the first candidate that exists
RECURSIVE FirstExisting(_, _, _)
FirstExisting(files, prefix, exts) ==
    IF exts = <<>> THEN None
    ELSE IF (prefix \o <<Head(exts)>>) \in files THEN prefix \o <<Head(exts)>>
    ELSE FirstExisting(files, prefix, Tail(exts))

AudioFor(files, json_file) == FirstExisting(files, BaseName(json_file), AudioExts)

CoverFor(files, json_file) ==
    FirstExisting(files, BaseName(json_file) \o <<"_cover">>, CoverExts)

\* the body of the loop over json_files, for the sidecars in the order given
RECURSIVE find_triplets(_, _)
find_triplets(files, json_files) ==
    IF json_files = <<>> THEN <<>>
    ELSE LET json_file == Head(json_files)
             audio_file == AudioFor(files, json_file)
             rest == find_triplets(files, Tail(json_files))
         IN  IF audio_file = None THEN rest
             ELSE <<[audio |-> audio_file, tags |-> json_file,
                     cover |-> CoverFor(files, json_file)]>> \o rest

\* the orders in which glob may yield a set of names
Orders(S) == {s \in [1..Cardinality(S) -> S] : \A i, j \in 1..Cardinality(S) :
                  i # j => s[i] # s[j]}

----------------------------------------------------------------------------
(* The files a directory may hold at the start. *)

Sidecars == {<<"a", "_tags", ".json">>, <<"a", "_tags", "_tags", ".json">>,
             <<"_tags", ".json">>, <<"_tags", "_tags", ".json">>}

Bases == {BaseName(s) : s \in Sidecars}

\* the audio and cover files of the base names the matcher derives, and
\* a_tags.m4a, the audio file named after a_tags_tags.json
MediaFiles ==
    {b \o <<AudioExts[i]>> : b \in Bases, i \in 1..Len(AudioExts)}
      \cup {b \o <<"_cover", CoverExts[i]>> : b \in Bases, i \in 1..Len(CoverExts)}
      \cup {<<"a", "_tags", ".m4a">>}

Universe == Sidecars \cup MediaFiles

NoFrames == <<>>

\* frames of an mp3 that was in the directory from the start
OldFrames == [k \in {"TIT2"} |-> [text |-> <<"Old">>]]

InitialFrames(name) == IF Suffix(name) = ".mp3" THEN OldFrames ELSE NoFrames

----------------------------------------------------------------------------
(* What json.load may return for a sidecar, and Python's truth test and    *)
(* [0] on it.                                                              *)

NotLoaded == [t |-> "unset"]

\* open() raised (missing file, a directory, no permission)
OpenError == [t |-> "OSError"]

\* json.load raised (not UTF-8, not JSON)
DecodeError == [t |-> "JSONDecodeError"]

KeyError == [t |-> "KeyError"]

TypeError == [t |-> "TypeError"]

JNull == [t |-> "null"]

JNum(n) == [t |-> "num", n |-> n]

JStr(chars) == [t |-> "str", chars |-> chars]

JArr(items) == [t |-> "arr", items |-> items]

JObj(fields) == [t |-> "obj", fields |-> fields]

\* [{"title": "A", "artist": "B", "album": ""}]
Record == JObj([title |-> "A", artist |-> "B", album |-> ""])

SidecarContents ==
    {OpenError, DecodeError, JNull, JNum(5), JStr(<<"a", "b", "c">>), JArr(<<>>),
     JArr(<<Record>>), JArr(<<JNum(5)>>), Record}

IsError(v) == v.t \in {"OSError", "JSONDecodeError", "KeyError", "TypeError"}

\* bool(value)
Truthy(v) ==
    CASE v.t = "null" -> FALSE
      [] v.t = "num" -> v.n # 0
      [] v.t = "str" -> v.chars # <<>>
      [] v.t = "arr" -> v.items # <<>>
      [] v.t = "obj" -> DOMAIN v.fields # {}
      [] OTHER -> FALSE

\* value[0]
Index0(v) ==
    CASE v.t = "arr" -> v.items[1]
      [] v.t = "str" -> JStr(<<v.chars[1]>>)
      [] v.t = "obj" -> KeyError
      [] OTHER -> TypeError

\* lines 173-182 of process_triplet: "raised", "empty", or "ok" with tags_data
ReadOutcome(loaded) ==
    IF IsError(loaded) THEN "raised"
    ELSE IF ~Truthy(loaded) THEN "empty"
    ELSE IF IsError(Index0(loaded)) THEN "raised"
    ELSE "ok"

\* process_triplet's local tags_data, once the sidecar is read
tags_data == Index0(tags_list)

----------------------------------------------------------------------------
(* The tag writer: ID3 frames of a file, keyed by the frame's hash key.    *)

\* an add that merges a text frame into the one already there, as the tag
\* writer does for the duplicate frames of a file it loads
AddFrameMerged(frames, key, frame) ==
    [k \in DOMAIN frames \cup {key} |->
        IF k # key THEN frames[k]
        ELSE IF key \in DOMAIN frames /\ "text" \in DOMAIN frame
             THEN [text |-> frames[key].text \o frame.text]
             ELSE frame]

\* ID3.add: the frame takes the place of the frame with the same hash key
AddFrame(frames, key, frame) ==
    [k \in DOMAIN frames \cup {key} |-> IF k = key THEN frame ELSE frames[k]]

\* a test of presence only: an empty string counts as a value
HasFieldPresent(fields, field) == field \in DOMAIN fields

\* tags_data.get(field) is present and not empty
HasField(fields, field) == field \in DOMAIN fields /\ fields[field] # ""

\* the field -> frame lines of apply_tags, in the order of the source
TagFields == <<"title", "artist", "album", "year", "genre", "comment">>

FrameKey(field) ==
    CASE field = "title" -> "TIT2"
      [] field = "artist" -> "TPE1"
      [] field = "album" -> "TALB"
      [] field = "year" -> "TDRC"
      [] field = "genre" -> "TCON"
      [] field = "comment" -> "COMM::eng"

RECURSIVE AddFields(_, _, _)
AddFields(frames, fields, todo) ==
    IF todo = <<>> THEN frames
    ELSE AddFields(IF HasField(fields, Head(todo))
                   THEN AddFrame(frames, FrameKey(Head(todo)),
                                 [text |-> <<fields[Head(todo)]>>])
                   ELSE frames,
                   fields, Tail(todo))

\* apply_tags on a file whose frames load and save: the frames it saves
apply_tags(frames, fields) == AddFields(frames, fields, TagFields)

\* a choice by the extension as it is spelled, without lower()
MimeTypeCaseSensitive(cover_file) ==
    LET ext == Suffix(cover_file)
    IN  IF ext = ".png" THEN "image/png"
        ELSE IF ext = ".webp" THEN "image/webp"
        ELSE "image/jpeg"

\* the MIME type embed_cover_art chooses
MimeType(cover_file) ==
    LET ext == Lower(Suffix(cover_file))
    IN  IF ext = ".png" THEN "image/png"
        ELSE IF ext = ".webp" THEN "image/webp"
        ELSE "image/jpeg"

\* embed_cover_art on a file whose frames load and save: the frames it saves
embed_cover_art(frames, cover_file) ==
    AddFrame(frames, "APIC:Cover",
             [mime |-> MimeType(cover_file), type |-> 3, data |-> cover_file])

\* encodings the standard output may have (PYTHONIOENCODING, the locale)
StdoutEncodings == {"utf-8", "ascii"}

\* the encoding can encode the mark that line 216 prints before the name of
\* the tagged file; every other line the program prints is ASCII
EncodesMark(encoding) == encoding = "utf-8"

NoLog == [read |-> "none", convert |-> "none", tag |-> "none", embed |-> "none",
          unlinkFailed |-> "none"]

Init ==
    /\ dirKind \in {"missing", "file", "dir"}
    /\ \E files \in SUBSET Universe :
          /\ Cardinality(files) <= MaxFiles
          /\ dirKind # "dir" => files = {}
          /\ fs = [n \in files |-> InitialFrames(n)]
    /\ pc = "start"
    /\ triplets = <<>>
    /\ idx = 0
    /\ stage = "idle"
    /\ tags_list = NotLoaded
    /\ mp3_file = None
    /\ ret = FALSE
    /\ success_count = 0
    /\ exit_code = NoExit
    /\ tally = <<>>
    /\ dir0 = {}
    /\ fs0 = fs
    /\ log = NoLog
    /\ results = <<>>
    /\ stdout_encoding \in StdoutEncodings

----------------------------------------------------------------------------
(* main, up to the loop *)

Without(f, names) == [n \in DOMAIN f \ names |-> f[n]]

WithFile(f, name, frames) ==
    [n \in DOMAIN f \cup {name} |-> IF n = name THEN frames ELSE f[n]]

unit == triplets[idx]

\* lines 237-243: the target path is checked before anything else
CheckDirectory ==
    /\ pc = "start"
    /\ IF dirKind = "dir"
       THEN pc' = "scan" /\ exit_code' = exit_code
       ELSE pc' = "exit" /\ exit_code' = 1
    /\ UNCHANGED <<stdout_encoding, dirKind, fs, triplets, idx, stage, tags_list, mp3_file, ret,
                   success_count, tally, dir0, fs0, log, results>>

\* lines 248-259: find_triplets, and the exit when it found nothing
Scan ==
    /\ pc = "scan"
    /\ \E json_files \in Orders(GlobTagsJson(DOMAIN fs)) :
          triplets' = find_triplets(DOMAIN fs, json_files)
    /\ IF triplets' = <<>>
       THEN pc' = "exit" /\ exit_code' = 0 /\ idx' = idx /\ stage' = stage
       ELSE pc' = "loop" /\ exit_code' = exit_code /\ idx' = 1
            /\ stage' = "ReadMetadata"
    /\ dir0' = DOMAIN fs
    /\ UNCHANGED <<stdout_encoding, dirKind, fs, tags_list, mp3_file, ret, success_count, tally,
                   fs0, log, results>>

----------------------------------------------------------------------------
(* process_triplet, stage by stage *)

\* lines 173-182: the sidecar is opened and decoded; what it holds is an input
ReadMetadata ==
    /\ pc = "loop" /\ stage = "ReadMetadata"
    /\ \E loaded \in SidecarContents :
          /\ unit.tags \notin DOMAIN fs => loaded = OpenError
          /\ tags_list' = loaded
          /\ log' = [log EXCEPT !.read = ReadOutcome(loaded)]
          /\ IF ReadOutcome(loaded) = "ok"
             THEN stage' = "Normalize" /\ ret' = ret
             ELSE stage' = "Aborted" /\ ret' = FALSE
    /\ UNCHANGED <<stdout_encoding, dirKind, fs, pc, triplets, idx, mp3_file, success_count,
                   exit_code, tally, dir0, fs0, results>>

\* what running ffmpeg may come to
ConvertOutcomes == {"ok", "nonzero", "nonzero_bad_stderr", "ffmpeg_missing", "os_error"}

\* a converter that removes its input when ffmpeg fails
convert_to_mp3_unlinks_input(files, input_file, output_file, outcome, partial) ==
    CASE outcome = "ok" ->
            [result |-> "True", fs |-> WithFile(files, output_file, NoFrames)]
      [] outcome \in {"nonzero", "ffmpeg_missing"} ->
            [result |-> "False", fs |-> Without(files, {input_file})]
      [] OTHER -> [result |-> "raise", fs |-> files]

\* convert_to_mp3: its result ("True", "False", or "raise" when the error is
\* not one it catches) and the directory afterwards. ffmpeg exits 0 having
\* written the output; exits non-zero, the output written in part or not at
\* all, and the handler decodes its stderr; or cannot be started.
convert_to_mp3(files, input_file, output_file, outcome, partial) ==
    CASE outcome = "ok" ->
            [result |-> "True", fs |-> WithFile(files, output_file, NoFrames)]
      [] outcome = "nonzero" ->
            [result |-> "False",
             fs |-> IF partial THEN WithFile(files, output_file, NoFrames) ELSE files]
      [] outcome = "nonzero_bad_stderr" ->
            [result |-> "raise",
             fs |-> IF partial THEN WithFile(files, output_file, NoFrames) ELSE files]
      [] outcome = "ffmpeg_missing" -> [result |-> "False", fs |-> files]
      [] outcome = "os_error" -> [result |-> "raise", fs |-> files]

\* lines 184-191
Normalize ==
    /\ pc = "loop" /\ stage = "Normalize"
    /\ IF Lower(Suffix(unit.audio)) = ".mp3"
       THEN /\ mp3_file' = unit.audio
            /\ log' = [log EXCEPT !.convert = "skipped"]
            /\ stage' = "Tag"
            /\ UNCHANGED <<fs, ret>>
       ELSE /\ mp3_file' = WithSuffix(unit.audio, ".mp3")
            /\ \E outcome \in ConvertOutcomes, partial \in BOOLEAN :
                  LET r == convert_to_mp3(fs, unit.audio, mp3_file', outcome, partial)
                  IN  /\ outcome = "ok" => unit.audio \in DOMAIN fs
                      /\ partial => outcome \in {"nonzero", "nonzero_bad_stderr"}
                      /\ fs' = r.fs
                      /\ log' = [log EXCEPT !.convert = outcome]
                      /\ stage' = CASE r.result = "True" -> "Tag"
                                    [] r.result = "False" -> "Aborted"
                                    [] r.result = "raise" -> "Crashed"
                      /\ ret' = IF r.result = "False" THEN FALSE ELSE ret
    /\ UNCHANGED <<stdout_encoding, dirKind, pc, triplets, idx, tags_list, success_count,
                   exit_code, tally, dir0, fs0, results>>

\* apply_tags can succeed only on a file that exists, with a mapping as record
CanTag == mp3_file \in DOMAIN fs /\ tags_data.t = "obj"

\* an embed stage entered whether or not the unit has a cover
AfterTagAlwaysEmbeds(ok, cover_file) == IF ok THEN "EmbedCover" ELSE "Aborted"

\* lines 193-196: where the unit goes once apply_tags has returned ok
AfterTag(ok, cover_file) ==
    IF ~ok THEN "Aborted"
    ELSE IF cover_file # None THEN "EmbedCover"
    ELSE "Cleanup"

\* lines 193-194
Tag ==
    /\ pc = "loop" /\ stage = "Tag"
    /\ \E ok \in BOOLEAN :
          /\ ok => CanTag
          /\ IF ok
             THEN /\ fs' = [fs EXCEPT ![mp3_file] = apply_tags(@, tags_data.fields)]
                  /\ log' = [log EXCEPT !.tag = "ok"]
                  /\ stage' = AfterTag(ok, unit.cover)
                  /\ ret' = ret
             ELSE /\ fs' = fs
                  /\ log' = [log EXCEPT !.tag = "failed"]
                  /\ stage' = AfterTag(ok, unit.cover)
                  /\ ret' = FALSE
    /\ UNCHANGED <<stdout_encoding, dirKind, pc, triplets, idx, tags_list, mp3_file,
                   success_count, exit_code, tally, dir0, fs0, results>>

\* embed_cover_art can succeed only when both files exist
CanEmbed == mp3_file \in DOMAIN fs /\ unit.cover \in DOMAIN fs

\* lines 197-198: where the unit goes once embed_cover_art has returned ok
AfterEmbed(ok) == "Cleanup"

\* lines 196-198
EmbedCover ==
    /\ pc = "loop" /\ stage = "EmbedCover"
    /\ \E ok \in BOOLEAN :
          /\ ok => CanEmbed
          /\ IF ok
             THEN /\ fs' = [fs EXCEPT ![mp3_file] = embed_cover_art(@, unit.cover)]
                  /\ log' = [log EXCEPT !.embed = "ok"]
             ELSE /\ fs' = fs
                  /\ log' = [log EXCEPT !.embed = "failed"]
          /\ stage' = AfterEmbed(ok)
    /\ UNCHANGED <<stdout_encoding, dirKind, pc, triplets, idx, tags_list, mp3_file, ret,
                   success_count, exit_code, tally, dir0, fs0, results>>

\* where the unit is after the clean-up block and the print of line 216
AfterCleanup(encoding) == IF EncodesMark(encoding) THEN "Done" ELSE "Crashed"

\* the unlink calls of the clean-up block, in its order: the sidecar, the
\* cover if the unit has one, the original when it is not the tagged file
\* and exists
Deletions ==
    <<[what |-> "tags", path |-> unit.tags]>>
      \o (IF unit.cover # None THEN <<[what |-> "cover", path |-> unit.cover]>>
          ELSE <<>>)
      \o (IF unit.audio # mp3_file /\ unit.audio \in DOMAIN fs
          THEN <<[what |-> "audio", path |-> unit.audio]>> ELSE <<>>)

\* lines 200-217: the first done unlinks succeed; the next one, if there is
\* one, raises, which ends the block; then line 216, outside the block,
\* prints a line with a mark that is not ASCII: the unit returns True when
\* the standard output can encode it, and otherwise the UnicodeEncodeError
\* of the print leaves process_triplet
Cleanup ==
    /\ pc = "loop" /\ stage = "Cleanup"
    /\ \E done \in 0..Len(Deletions) :
          /\ \A i \in 1..done : Deletions[i].path \in DOMAIN fs
          /\ fs' = Without(fs, {Deletions[i].path : i \in 1..done})
          /\ log' = [log EXCEPT !.unlinkFailed =
                        IF done < Len(Deletions) THEN Deletions[done + 1].what
                        ELSE "none"]
    /\ stage' = AfterCleanup(stdout_encoding)
    /\ ret' = (stage' = "Done")
    /\ UNCHANGED <<stdout_encoding, dirKind, pc, triplets, idx, tags_list, mp3_file,
                   success_count, exit_code, tally, dir0, fs0, results>>

----------------------------------------------------------------------------
(* main's loop and exit *)

\* lines 262-264: process_triplet has returned; the next unit, if any, starts
Return ==
    /\ pc = "loop" /\ stage \in {"Done", "Aborted"}
    /\ success_count' = IF ret THEN success_count + 1 ELSE success_count
    /\ results' = Append(results, ret)
    /\ IF idx < Len(triplets)
       THEN /\ idx' = idx + 1
            /\ stage' = "ReadMetadata"
            /\ pc' = pc
       ELSE /\ idx' = idx
            /\ stage' = "idle"
            /\ pc' = "tally"
    /\ tags_list' = NotLoaded
    /\ mp3_file' = None
    /\ ret' = FALSE
    /\ fs0' = fs
    /\ log' = NoLog
    /\ UNCHANGED <<stdout_encoding, dirKind, fs, triplets, exit_code, tally, dir0>>

\* lines 266-268: the tally line; main returns and the process exits with 0
Tally ==
    /\ pc = "tally"
    /\ tally' = <<success_count, Len(triplets)>>
    /\ pc' = "exit"
    /\ exit_code' = 0
    /\ UNCHANGED <<stdout_encoding, dirKind, fs, triplets, idx, stage, tags_list, mp3_file, ret,
                   success_count, dir0, fs0, log, results>>

\* an exception left process_triplet (from the encoder call, or from the
\* print of line 216): nothing in main catches it, the interpreter prints
\* the traceback and exits with 1
Uncaught ==
    /\ pc = "loop" /\ stage = "Crashed"
    /\ pc' = "exit"
    /\ exit_code' = 1
    /\ UNCHANGED <<stdout_encoding, dirKind, fs, triplets, idx, stage, tags_list, mp3_file, ret,
                   success_count, tally, dir0, fs0, log, results>>

Next ==
    \/ CheckDirectory
    \/ Scan
    \/ ReadMetadata
    \/ Normalize
    \/ Tag
    \/ EmbedCover
    \/ Cleanup
    \/ Return
    \/ Tally
    \/ Uncaught

Spec == Init /\ [][Next]_vars

TypeOK ==
    /\ pc \in {"start", "scan", "loop", "tally", "exit"}
    /\ stage \in {"idle", "ReadMetadata", "Normalize", "Tag", "EmbedCover",
                  "Cleanup", "Done", "Aborted", "Crashed"}
    /\ idx \in 0..Len(triplets)
    /\ success_count \in 0..Len(triplets)
    /\ exit_code \in {NoExit, 0, 1}

\* what find_triplets may return when main is run again on the directory as
\* the run has left it: one list for each order in which glob may give the
\* sidecars
SecondScan ==
    {find_triplets(DOMAIN fs, json_files) :
        json_files \in Orders(GlobTagsJson(DOMAIN fs))}

----------------------------------------------------------------------------
(* apply_tags and embed_cover_art on one asset: a second specification, in *)
(* which a record and the asset's frames are drawn at the start and the    *)
(* two functions are then called on the asset, in any order.               *)

\* the calls made on the asset are at most this many
MaxCalls == 2

Asset == <<"a", ".mp3">>

AssetSidecar == <<"a", "_tags", ".json">>

\* cover files embed_cover_art may be given: the four extensions of the
\* matcher, one in upper case and one that is none of them
Covers ==
    {<<"a", "_cover", CoverExts[i]>> : i \in 1..Len(CoverExts)}
      \cup {<<"a", "_cover", ".PNG">>, <<"a", "_cover", ".gif">>}

FieldNames == {TagFields[i] : i \in 1..Len(TagFields)}

\* the mappings a sidecar's first element may be: each of the six fields is
\* absent, empty or set
Records ==
    UNION {[present -> {"", "A"}] : present \in SUBSET FieldNames}

\* frames an asset may hold before the first call: a frame for each of the
\* six fields, a cover, and frames the functions never write
FullFrames ==
    [k \in {FrameKey(f) : f \in FieldNames} |-> [text |-> <<"Old">>]]
      @@ ("APIC:Cover" :> [mime |-> "image/gif", type |-> 3, data |-> <<"old">>])
      @@ ("TXXX:x" :> [text |-> <<"kept">>])

Restrict(f, keys) == [k \in DOMAIN f \cap keys |-> f[k]]

InitialTagSets ==
    {NoFrames, OldFrames, FullFrames, Restrict(FullFrames, {"APIC:Cover", "TXXX:x"}),
     Restrict(FullFrames, {"TPE1", "TDRC", "COMM::eng"})}

\* one entry of the history of calls: the call, its cover, the frames after
Call(op, cover_file, frames) == [op |-> op, cover |-> cover_file, frames |-> frames]

InitTags ==
    /\ dirKind = "dir"
    /\ \E frames \in InitialTagSets :
          /\ fs = [n \in {Asset} |-> frames]
          /\ results = <<Call("init", None, frames)>>
    /\ \E fields \in Records : tags_list = JArr(<<JObj(fields)>>)
    /\ pc = "tags"
    /\ triplets = <<[audio |-> Asset, tags |-> AssetSidecar, cover |-> None]>>
    /\ idx = 1
    /\ stage = "Tag"
    /\ mp3_file = Asset
    /\ ret = FALSE
    /\ success_count = 0
    /\ exit_code = NoExit
    /\ tally = <<>>
    /\ dir0 = {}
    /\ fs0 = fs
    /\ log = NoLog
    /\ stdout_encoding = "utf-8"

\* apply_tags(mp3_file, tags_data), lines 91-125: the frames are loaded, the
\* fields added and the file saved; or an exception ends it before the save
ApplyTags ==
    /\ pc = "tags" /\ Len(results) <= MaxCalls
    /\ \E ok \in BOOLEAN :
          /\ fs' = IF ok THEN [fs EXCEPT ![mp3_file] = apply_tags(@, tags_data.fields)]
                   ELSE fs
          /\ ret' = ok
          /\ log' = [log EXCEPT !.tag = IF ok THEN "ok" ELSE "failed"]
          /\ results' = Append(results,
                               Call(IF ok THEN "tag" ELSE "tag_failed", None,
                                    fs'[mp3_file]))
    /\ UNCHANGED <<stdout_encoding, dirKind, pc, triplets, idx, stage, tags_list, mp3_file,
                   success_count, exit_code, tally, dir0, fs0>>

\* embed_cover_art(mp3_file, cover_file), lines 128-162, for a cover file:
\* the frames are loaded, the cover added and the file saved; or an exception
\* ends it before the save, whatever the cover (the history keeps no cover
\* for a failed call)
EmbedCoverArt ==
    /\ pc = "tags" /\ Len(results) <= MaxCalls
    /\ \/ \E cover_file \in Covers :
             /\ fs' = [fs EXCEPT ![mp3_file] = embed_cover_art(@, cover_file)]
             /\ ret' = TRUE
             /\ log' = [log EXCEPT !.embed = "ok"]
             /\ results' = Append(results, Call("embed", cover_file, fs'[mp3_file]))
       \/ /\ fs' = fs
          /\ ret' = FALSE
          /\ log' = [log EXCEPT !.embed = "failed"]
          /\ results' = Append(results, Call("embed_failed", None, fs[mp3_file]))
    /\ UNCHANGED <<stdout_encoding, dirKind, pc, triplets, idx, stage, tags_list, mp3_file,
                   success_count, exit_code, tally, dir0, fs0>>

NextTags == ApplyTags \/ EmbedCoverArt

SpecTags == InitTags /\ [][NextTags]_vars

----------------------------------------------------------------------------
(* The properties checked of the model. *)

InLoop == pc = "loop" /\ idx \in 1..Len(triplets)

\* the unit's base name, as the matcher derived it from the sidecar
base == BaseName(unit.tags)

\* C1: a unit that aborts in ReadMetadata, Normalize or Tag has deleted no
\* file: every file that existed when the unit started still exists (the
\* sidecar, the cover, the original), the normalized output it produced
\* exists, and process_triplet returns False. No file is deleted either when
\* the unit ends in Normalize by an error that leaves process_triplet.
C1_AbortDeletesNothing ==
    InLoop /\ (stage = "Aborted" \/ (stage = "Crashed" /\ log.tag = "none")) =>
        /\ DOMAIN fs0 \subseteq DOMAIN fs
        /\ log.convert = "ok" => mp3_file \in DOMAIN fs
        /\ stage = "Aborted" =>
              /\ ret = FALSE
              /\ \/ log.read \in {"raised", "empty"}
                 \/ log.convert \in {"nonzero", "ffmpeg_missing"}
                 \/ log.tag = "failed"

\* C1 witness: a unit with a cover aborted in Tag after a conversion
C1_Witness ==
    /\ InLoop /\ stage = "Aborted"
    /\ log.convert = "ok" /\ log.tag = "failed"
    /\ unit.cover # None
    /\ {unit.tags, unit.cover, unit.audio, mp3_file} \subseteq DOMAIN fs

\* C2: no error escapes process_triplet, so every unit of the list is
\* processed and the tally line is reached
C2_NoErrorEscapes ==
    /\ stage # "Crashed"
    /\ pc = "exit" /\ triplets # <<>> =>
          Len(results) = Len(triplets) /\ tally # <<>>

\* C3: no two units of the list have the same base name, the same audio
\* path or the same normalized output path, nor the same cover path
C3_OneUnitPerBase ==
    \A i, j \in 1..Len(triplets) :
        i # j =>
            /\ BaseName(triplets[i].tags) # BaseName(triplets[j].tags)
            /\ triplets[i].audio # triplets[j].audio
            /\ WithSuffix(triplets[i].audio, ".mp3") # WithSuffix(triplets[j].audio, ".mp3")
            /\ triplets[i].cover # None => triplets[i].cover # triplets[j].cover

\* C4: process_triplet returns True if and only if the sidecar was read,
\* the audio was normalized (or needed no normalization) and apply_tags
\* succeeded; once apply_tags has succeeded the unit can only go on to Done,
\* whatever embed_cover_art and each unlink do
C4_SuccessIffTagged ==
    InLoop =>
        /\ stage \in {"Done", "Aborted"} =>
              (ret <=> /\ log.read = "ok"
                       /\ log.convert \in {"skipped", "ok"}
                       /\ log.tag = "ok")
        /\ log.tag = "ok" => stage \in {"EmbedCover", "Cleanup", "Done"}

\* C5: a unit with a cover whose embed failed goes on to Cleanup and Done and
\* returns True; the sidecar is gone unless its unlink failed, and the cover
\* is gone unless the unlink of the sidecar or of the cover failed; and the
\* success count is the number of units that returned True
C5_EmbedFailureStillCleans ==
    /\ InLoop /\ log.embed = "failed" =>
          /\ stage \in {"Cleanup", "Done"}
          /\ stage = "Done" =>
                /\ ret
                /\ log.unlinkFailed # "tags" => unit.tags \notin DOMAIN fs
                /\ log.unlinkFailed \notin {"tags", "cover"} =>
                      unit.cover \notin DOMAIN fs
    /\ success_count = Cardinality({i \in 1..Len(results) : results[i]})

NonEmptyArray(v) == v.t = "arr" /\ v.items # <<>>

\* C6: a sidecar that cannot be opened or decoded, or that does not decode to
\* a non-empty array, aborts the unit in ReadMetadata: the encoder is not
\* run, the directory is as it was, and the unit returns False
C6_BadSidecarAbortsInRead ==
    InLoop /\ tags_list.t # "unset" /\ ~NonEmptyArray(tags_list) =>
        /\ stage = "Aborted"
        /\ ret = FALSE
        /\ log.convert = "none" /\ log.tag = "none"
        /\ fs = fs0

\* C7: the process exits with 1 exactly when the target path is missing or
\* is not a directory, and then before the matcher ran; in every other run
\* it exits with 0, also when no unit was found
C7_ExitCode ==
    pc = "exit" =>
        /\ exit_code = 1 <=> dirKind # "dir"
        /\ exit_code = 0 <=> dirKind = "dir"
        /\ dirKind # "dir" => triplets = <<>> /\ dir0 = {} /\ results = <<>>
        /\ dirKind = "dir" /\ triplets = <<>> => results = <<>> /\ success_count = 0

\* the orders of the directory convention
AudioPriority == <<".m4a", ".mp4", ".mp3", ".flac">>

CoverPriority == <<".jpeg", ".jpg", ".png", ".webp">>

\* path is the candidate prefix + extension that exists and whose extension
\* comes first in the order, or None when no candidate exists
FirstByPriority(files, prefix, order, path) ==
    \/ /\ path = None
       /\ \A k \in 1..Len(order) : (prefix \o <<order[k]>>) \notin files
    \/ \E k \in 1..Len(order) :
          /\ path = prefix \o <<order[k]>>
          /\ path \in files
          /\ \A j \in 1..(k - 1) : (prefix \o <<order[j]>>) \notin files

\* C8: every unit's audio path is the existing <base><ext> first in the
\* audio order, and its cover path the existing <base>_cover<ext> first in
\* the cover order (None when there is none)
C8_FirstMatchByPriority ==
    \A i \in 1..Len(triplets) :
        LET t == triplets[i]
            b == BaseName(t.tags)
        IN  /\ t.audio # None
            /\ FirstByPriority(dir0, b, AudioPriority, t.audio)
            /\ FirstByPriority(dir0, b \o <<"_cover">>, CoverPriority, t.cover)

\* C8 witness: two audio candidates exist and the one first in the order is
\* the unit's, with a cover that is not the first of its list
C8_Witness ==
    \E i \in 1..Len(triplets) :
        LET t == triplets[i]
            b == BaseName(t.tags)
        IN  /\ {b \o <<".mp4">>, b \o <<".flac">>} \subseteq dir0
            /\ t.audio = b \o <<".mp4">>
            /\ t.cover = b \o <<"_cover", ".png">>

\* C9: a unit whose audio asset is <base>.mp3 never runs the encoder and
\* tags the audio path itself; at Done the audio file exists, and the
\* sidecar and the cover are removed (when no unlink failed)
C9_Mp3InPlace ==
    InLoop /\ unit.audio = base \o <<".mp3">> =>
        /\ log.convert \in {"none", "skipped"}
        /\ mp3_file # None => mp3_file = unit.audio
        /\ stage = "Done" =>
              /\ unit.audio \in DOMAIN fs
              /\ log.unlinkFailed = "none" =>
                    /\ unit.tags \notin DOMAIN fs
                    /\ unit.cover # None => unit.cover \notin DOMAIN fs

\* the MIME type of a cover extension
MimeOfExt(ext) ==
    CASE ext = ".png" -> "image/png"
      [] ext = ".webp" -> "image/webp"
      [] ext \in {".jpeg", ".jpg"} -> "image/jpeg"

\* the frames hold the record's non-empty fields
CarriesRecord(frames, fields) ==
    \A f \in DOMAIN fields :
        fields[f] # "" =>
            /\ FrameKey(f) \in DOMAIN frames
            /\ frames[FrameKey(f)] = [text |-> <<fields[f]>>]

\* C10: a unit with a non-mp3 audio asset in which every stage and every
\* unlink succeeded: <base>.mp3 exists with the record's tags and the cover
\* under the MIME type of its extension; the sidecar, the cover and the
\* original are gone; the unit returns True; and an original is only ever
\* deleted when the tagged path differs from it
C10_ConvertedUnit ==
    /\ InLoop /\ stage = "Done" /\ Last(unit.audio) # ".mp3"
         /\ log.embed # "failed" /\ log.unlinkFailed = "none" =>
          LET out == base \o <<".mp3">>
          IN  /\ ret
              /\ out \in DOMAIN fs
              /\ CarriesRecord(fs[out], tags_data.fields)
              /\ unit.cover # None =>
                    /\ "APIC:Cover" \in DOMAIN fs[out]
                    /\ fs[out]["APIC:Cover"].mime = MimeOfExt(Last(unit.cover))
              /\ unit.tags \notin DOMAIN fs
              /\ unit.cover # None => unit.cover \notin DOMAIN fs
              /\ unit.audio \notin DOMAIN fs
    /\ InLoop /\ stage = "Done" /\ unit.audio \in DOMAIN fs0
         /\ unit.audio \notin DOMAIN fs => mp3_file # unit.audio

----------------------------------------------------------------------------
(* The properties checked of the pipeline's steps (Spec). *)

StageRank(s) ==
    CASE s = "ReadMetadata" -> 1
      [] s = "Normalize" -> 2
      [] s = "Tag" -> 3
      [] s = "EmbedCover" -> 4
      [] s = "Cleanup" -> 5
      [] s = "Done" -> 6
      [] OTHER -> 0

\* the step is one of the unit being processed
SameUnit == pc = "loop" /\ pc' = "loop" /\ idx' = idx /\ idx \in 1..Len(triplets)

\* what C12 says of one step
C12_Step ==
    /\ SameUnit /\ StageRank(stage) > 0 /\ StageRank(stage') > 0 /\ stage' # stage =>
          \/ StageRank(stage') = StageRank(stage) + 1
          \/ stage = "Tag" /\ stage' = "Cleanup" /\ unit.cover = None
    /\ SameUnit /\ stage' = "Aborted" /\ stage # "Aborted" =>
          stage \in {"ReadMetadata", "Normalize", "Tag"}
    /\ pc = "loop" /\ stage \in {"Done", "Aborted"} /\ stage' # stage =>
          \/ idx' = idx + 1 /\ stage' = "ReadMetadata"
          \/ pc' = "tally"
    /\ SameUnit /\ stage' = "EmbedCover" /\ stage # "EmbedCover" =>
          unit.cover # None /\ stage = "Tag"
    /\ ~(DOMAIN fs \subseteq DOMAIN fs') =>
          pc = "loop" /\ stage = "Cleanup" /\ log.tag = "ok"

\* C12: a unit goes through ReadMetadata, Normalize, Tag, EmbedCover,
\* Cleanup, Done one stage at a time, EmbedCover being left out when the unit
\* has no cover and entered only when it has one; Aborted is entered only
\* from ReadMetadata, Normalize or Tag; from Done and Aborted the unit goes
\* nowhere (the next step starts the next unit or ends the loop); and a file
\* is deleted only in Cleanup, after apply_tags succeeded
C12_StageOrder == [][C12_Step]_vars

\* C12 witness: a unit with a cover went through every stage to Done after
\* a conversion, its sidecar, cover and original deleted
C12_Witness ==
    /\ InLoop /\ stage = "Done"
    /\ log.convert = "ok" /\ log.tag = "ok" /\ log.embed = "ok"
    /\ {unit.tags, unit.cover, unit.audio} \cap DOMAIN fs = {}

\* the directory has been scanned and nothing has been processed yet
JustScanned ==
    \/ pc = "loop" /\ idx = 1 /\ stage = "ReadMetadata"
    \/ pc = "exit" /\ dirKind = "dir" /\ triplets = <<>>

UnitsOf(json_file) == {i \in 1..Len(triplets) : triplets[i].tags = json_file}

\* the base name of a sidecar: its name without the ending _tags.json
SidecarBase(json_file) == Front(Front(json_file))

\* C14: once the directory is scanned, a sidecar has a unit (exactly one) if
\* and only if <base><ext> exists for one of the four audio extensions,
\* <base> being the sidecar's name without its ending _tags.json; every unit
\* is of a sidecar of the directory; a unit has no cover exactly when no
\* <base>_cover<ext> exists; and the scan raised nothing (with no unit the
\* process exits with 0) and left the directory as it was
C14_UnitIffAudio ==
    pc \in {"loop", "tally", "exit"} /\ dirKind = "dir" =>
        /\ \A json_file \in GlobTagsJson(dir0) :
              LET hasAudio == \E k \in 1..Len(AudioPriority) :
                                 (SidecarBase(json_file) \o <<AudioPriority[k]>>) \in dir0
              IN  Cardinality(UnitsOf(json_file)) = IF hasAudio THEN 1 ELSE 0
        /\ \A i \in 1..Len(triplets) :
              /\ triplets[i].tags \in GlobTagsJson(dir0)
              /\ triplets[i].cover = None <=>
                    \A k \in 1..Len(CoverPriority) :
                        (SidecarBase(triplets[i].tags) \o <<"_cover", CoverPriority[k]>>)
                            \notin dir0
        /\ JustScanned =>
              /\ fs = fs0 /\ DOMAIN fs = dir0
              /\ triplets = <<>> => exit_code = 0

\* the files the unit has removed since it started
Removed == DOMAIN fs0 \ DOMAIN fs

\* the unit has left Cleanup, by the return or by the error of line 216
PastCleanup == InLoop /\ log.tag = "ok" /\ stage \in {"Done", "Crashed"}

\* C17: when a unit has left Cleanup, it is reported successful, and what it
\* removed follows the order sidecar, cover, original up to the first unlink
\* that failed: a removed cover or original means the sidecar is gone, a
\* removed original means the unit's cover, if it has one, is gone; when the
\* sidecar's unlink failed nothing was removed, when the cover's failed only
\* the sidecar was, when the original's failed the original is still there
C17_CleanupOrder ==
    PastCleanup =>
        /\ stage = "Done" /\ ret = TRUE
        /\ unit.cover \in Removed => unit.tags \notin DOMAIN fs
        /\ unit.audio \in Removed =>
              /\ unit.tags \notin DOMAIN fs
              /\ unit.cover # None => unit.cover \notin DOMAIN fs
        /\ log.unlinkFailed = "tags" => Removed = {}
        /\ log.unlinkFailed = "cover" =>
              /\ Removed = {unit.tags}
              /\ unit.cover # None
        /\ log.unlinkFailed = "audio" =>
              /\ Removed = {unit.tags} \cup (IF unit.cover = None THEN {} ELSE {unit.cover})
              /\ unit.audio \in DOMAIN fs
        /\ log.unlinkFailed = "none" =>
              /\ unit.tags \notin DOMAIN fs
              /\ unit.cover # None => unit.cover \notin DOMAIN fs
              /\ unit.audio # mp3_file => unit.audio \notin DOMAIN fs

\* the paths a unit may touch: its audio, sidecar and cover, and <base>.mp3
OwnPaths ==
    {unit.audio, unit.tags, base \o <<".mp3">>}
      \cup (IF unit.cover = None THEN {} ELSE {unit.cover})

\* C18: while a unit is processed, at every stage and with every outcome,
\* every file other than the unit's audio, sidecar, cover and <base>.mp3 is
\* as it was when the unit started: none is created, changed or removed
C18_OnlyOwnPaths ==
    InLoop =>
        \A n \in (DOMAIN fs \cup DOMAIN fs0) \ OwnPaths :
            /\ n \in DOMAIN fs /\ n \in DOMAIN fs0
            /\ fs[n] = fs0[n]

\* the scan holds a unit of the sidecar
EmitsUnitOf(scan, json_file) == \E j \in 1..Len(scan) : scan[j].tags = json_file

\* C19: when the run is over and the batch is run again on the directory, a
\* unit that returned True and whose sidecar was removed is not emitted by
\* the second scan, and a unit that returned False is emitted again: its
\* sidecar and an audio file of its base name are still in the directory
C19_SecondRun ==
    pc = "exit" /\ dirKind = "dir" =>
        \A i \in 1..Len(results) :
            LET json_file == triplets[i].tags
            IN  /\ results[i] /\ json_file \notin DOMAIN fs =>
                      \A scan \in SecondScan : ~EmitsUnitOf(scan, json_file)
                /\ ~results[i] =>
                      /\ json_file \in DOMAIN fs
                      /\ \E k \in 1..Len(AudioPriority) :
                            (BaseName(json_file) \o <<AudioPriority[k]>>) \in DOMAIN fs
                      /\ \A scan \in SecondScan : EmitsUnitOf(scan, json_file)

\* C13: the units run one after another in the list's order, each once and
\* each ending in Done or Aborted before the next starts; the tally line
\* gives the number of units of the list and the number that reached Done;
\* and the success count is between 0 and the total throughout
C13_SequentialBatch ==
    /\ 0 <= success_count /\ success_count <= Len(triplets)
    /\ pc = "loop" =>
          /\ idx \in 1..Len(triplets)
          /\ Len(results) = idx - 1
          /\ stage \in {"ReadMetadata", "Normalize", "Tag", "EmbedCover",
                        "Cleanup", "Done", "Aborted"}
    /\ pc = "exit" /\ triplets # <<>> =>
          /\ Len(results) = Len(triplets)
          /\ tally = <<Cardinality({i \in 1..Len(results) : results[i]}),
                       Len(triplets)>>

----------------------------------------------------------------------------
(* The properties checked of apply_tags and embed_cover_art (SpecTags). *)

Calls == 2..Len(results)

\* C11: applying the same record twice gives the frames that applying it once
\* gave: whenever apply_tags succeeded and succeeds again on the asset, with
\* or without embeds in between, the frames the record's fields own and the
\* number of frames are as after the first call; called twice in a row, the
\* whole frame set is the same
C11_TaggingIdempotent ==
    pc = "tags" =>
        \A i, j \in Calls :
            i < j /\ results[i].op = "tag" /\ results[j].op = "tag" =>
                /\ \A f \in FieldNames :
                      Restrict(results[j].frames, {FrameKey(f)})
                        = Restrict(results[i].frames, {FrameKey(f)})
                /\ j = i + 1 => results[j].frames = results[i].frames

\* C11 witness: a record with a set field was applied twice in a row to an
\* asset that already had a frame for that field
C11_Witness ==
    /\ pc = "tags" /\ Len(results) >= 3
    /\ results[2].op = "tag" /\ results[3].op = "tag"
    /\ HasField(tags_data.fields, "title")
    /\ "TIT2" \in DOMAIN results[1].frames
    /\ results[3].frames # results[1].frames

\* the frame key of each field of a record
FrameIdOf ==
    [title |-> "TIT2", artist |-> "TPE1", album |-> "TALB", year |-> "TDRC",
     genre |-> "TCON", comment |-> "COMM::eng"]

\* C15: a successful apply_tags leaves, for each of the six fields that is
\* present and not empty in the record, one frame under the field's key that
\* holds the field's value; for an absent or empty field it writes no frame
\* and the frame the asset had under that key, if any, is unchanged; the
\* frames of the asset are those it had and the ones written
C15_OneFramePerSetField ==
    pc = "tags" =>
        \A i \in Calls :
            results[i].op = "tag" =>
                LET before == results[i - 1].frames
                    after == results[i].frames
                    fields == tags_data.fields
                    isSet(f) == f \in DOMAIN fields /\ fields[f] # ""
                IN  /\ \A f \in DOMAIN FrameIdOf :
                          IF isSet(f)
                          THEN /\ FrameIdOf[f] \in DOMAIN after
                               /\ after[FrameIdOf[f]] = [text |-> <<fields[f]>>]
                          ELSE Restrict(after, {FrameIdOf[f]})
                                 = Restrict(before, {FrameIdOf[f]})
                    /\ DOMAIN after
                         = DOMAIN before
                             \cup {FrameIdOf[f] : f \in {g \in DOMAIN FrameIdOf : isSet(g)}}

\* C15 witness: a record with a set field, an empty field and an absent field
\* was applied to an asset that had a frame for each of the six fields
C15_Witness ==
    /\ pc = "tags" /\ Len(results) >= 2
    /\ results[1].frames = FullFrames
    /\ results[2].op = "tag"
    /\ "title" \in DOMAIN tags_data.fields /\ tags_data.fields["title"] = "A"
    /\ "album" \in DOMAIN tags_data.fields /\ tags_data.fields["album"] = ""
    /\ "year" \notin DOMAIN tags_data.fields

\* the MIME type of a cover file's extension, in any case
MimeOfCover(cover_file) ==
    LET ext == Last(cover_file)
    IN  IF ext \in {".png", ".PNG"} THEN "image/png"
        ELSE IF ext \in {".webp", ".WEBP"} THEN "image/webp"
        ELSE "image/jpeg"

\* C16: a successful embed_cover_art leaves one front-cover frame (type 3)
\* whose MIME type is image/png for .png, image/webp for .webp and image/jpeg
\* for every other extension, the extension taken in lower case, and whose
\* data is the cover given; the cover frame the asset had, from an earlier
\* embed or from before, is replaced, and every other frame is unchanged
C16_CoverFrame ==
    pc = "tags" =>
        \A i \in Calls :
            results[i].op = "embed" =>
                LET before == results[i - 1].frames
                    after == results[i].frames
                IN  /\ "APIC:Cover" \in DOMAIN after
                    /\ after["APIC:Cover"]
                         = [mime |-> MimeOfCover(results[i].cover), type |-> 3,
                            data |-> results[i].cover]
                    /\ DOMAIN after = DOMAIN before \cup {"APIC:Cover"}
                    /\ Restrict(after, DOMAIN after \ {"APIC:Cover"})
                         = Restrict(before, DOMAIN before \ {"APIC:Cover"})

\* C16 witness: a .jpg cover was embedded and then an upper-case .PNG cover,
\* which took its place
C16_Witness ==
    /\ pc = "tags" /\ Len(results) >= 3
    /\ results[2].op = "embed" /\ Last(results[2].cover) = ".jpg"
    /\ results[3].op = "embed" /\ Last(results[3].cover) = ".PNG"
    /\ results[3].frames["APIC:Cover"].mime = "image/png"

====
